---------------------------- MODULE Spec2Model ----------------------------
(***************************************************************************)
(* GCPDataHandler (src/gcp_handler.py): five memoized data-access          *)
(* operations in front of a remote provider, a credential codec and        *)
(* clear_cache.                                                            *)
(*                                                                         *)
(* The handler turns a credential dict into a live Credentials object and  *)
(* passes the LIVE OBJECT as the first argument of the memoized inner      *)
(* function.  The memoizer (self.cache.memoize) builds its key from the    *)
(* inner function's name and the printed form of its arguments.  The live  *)
(* Credentials class defines no printed form and no equality of its own,   *)
(* so the credential slot of the key is the object's identity (its         *)
(* address), not its fields.  Addresses of objects that are no longer      *)
(* referenced may be given to later objects.                               *)
(***************************************************************************)
EXTENDS Integers, Sequences, FiniteSets, TLC

(* ------------------------------ bounds -------------------------------- *)
NumAddr == 2
NumCallers == 2
MaxTime == 450
TickStep == 150
MaxCalls == 2

(* ------------------------- program constants -------------------------- *)
cache_timeout == 300

(* Python's None; no string of the model is spelled like it. *)
None == "None"

CredKeys == {"token", "refresh_token", "token_uri", "client_id", "client_secret", "scopes"}

Addr == 1 .. NumAddr

(* The threads that call the handler at the same time. *)
Callers == 1 .. NumCallers

(* ---------------------------- input sets ------------------------------ *)
RecA == [k \in CredKeys |->
           CASE k = "token" -> "tokA"
             [] k = "refresh_token" -> "rfA"
             [] k = "token_uri" -> "uriA"
             [] k = "client_id" -> "cidA"
             [] k = "client_secret" -> "secA"
             [] OTHER -> "scopeA"]

(* RecA after a token refresh: only the access token differs. *)
RecA2 == [RecA EXCEPT !["token"] = "tokA2"]

(* A refresh token but no token endpoint. *)
RecNoUri == [k \in CredKeys \ {"token_uri"} |-> RecA[k]]

(* No access token key at all. *)
RecNoTok == [k \in CredKeys \ {"token"} |-> RecA[k]]

CredDicts == {RecA, RecA2, RecNoUri, RecNoTok}

NoLimit == [some |-> FALSE, n |-> 0]
Limit(n) == [some |-> TRUE, n |-> n]

Projects == {"p1", "p2"}
Datasets == {"d1", "d2"}
Tables == {"t1", "t2"}
Locations == {"US", "EU"}
Limits == {NoLimit, Limit(0), Limit(5), Limit(-1)}
Queries == {None, "", "SELECT 1"}

(* (limit, custom_query) of the read_table calls of Spec. *)
MainReadArgs == {<<NoLimit, None>>, <<Limit(0), None>>, <<NoLimit, "">>}

(* ------------------------------- state -------------------------------- *)
VARIABLES
  cache,    \* the cache store: memoize key -> [value, expiresAt]
  now,      \* the clock the store reads
  live,     \* Credentials objects the caller holds: address -> fields
  last,     \* what the last handler operation did and returned
  calls,    \* how many calls of the five operations were made
  codec,    \* the last credential conversion done through the codec
  inflight  \* per calling thread: the call whose remote request is not answered yet

vars == <<cache, now, live, last, calls, codec, inflight>>

(* An attribute set with no token: no object, a free address. *)
NoCred == [k \in CredKeys |-> None]

NoResult == [fn |-> "none", cred |-> NoCred, args |-> <<>>, at |-> -1]

NoEntry == [value |-> NoResult, expiresAt |-> -1]

NoError == [type |-> "none", msg |-> ""]

NoCall == [fn |-> "none", form |-> "none", rec |-> NoCred, cred |-> NoCred, addr |-> 0,
           args |-> <<>>, key |-> <<>>, at |-> -1, status |-> "none",
           remote |-> "none", outcome |-> "none", sent |-> "", result |-> NoResult,
           err |-> NoError, pre |-> NoEntry, prev |-> "none", evicted |-> {}]

(* A thread with no call under way. *)
NoFlight == [call |-> NoCall, err |-> NoError]

NoCodec == [rec |-> NoCred, obj |-> NoCred, back |-> NoCred]

(* The three forms of the credentials argument. *)
DictCred(r) == [form |-> "dict", rec |-> r, addr |-> 0]
LiveCred(a) == [form |-> "live", rec |-> NoCred, addr |-> a]
OtherCred == [form |-> "other", rec |-> NoCred, addr |-> 0]

(* --------------------------- the credential codec --------------------- *)
(* The constructor of google.oauth2.credentials.Credentials, called with   *)
(* the dict as keyword arguments: token is required, every other           *)
(* parameter defaults to None, and no field is checked against another.    *)
CredentialsCtorOk(kw) == "token" \in DOMAIN kw

Credentials(kw) == [k \in CredKeys |-> IF k \in DOMAIN kw THEN kw[k] ELSE None]

_dict_to_credentials(credentials) == Credentials(credentials)

(* Faulty variant: the client secret is read from the client id. *)
_credentials_to_dict_swapped(credentials) ==
  [k \in CredKeys |->
     CASE k = "token" -> credentials["token"]
       [] k = "refresh_token" -> credentials["refresh_token"]
       [] k = "token_uri" -> credentials["token_uri"]
       [] k = "client_id" -> credentials["client_id"]
       [] k = "client_secret" -> credentials["client_id"]
       [] OTHER -> credentials["scopes"]]

_credentials_to_dict(credentials) ==
  [k \in CredKeys |->
     CASE k = "token" -> credentials["token"]
       [] k = "refresh_token" -> credentials["refresh_token"]
       [] k = "token_uri" -> credentials["token_uri"]
       [] k = "client_id" -> credentials["client_id"]
       [] k = "client_secret" -> credentials["client_secret"]
       [] OTHER -> credentials["scopes"]]

(* An address no object has: neither an object the caller holds nor the    *)
(* argument of a call that is under way.                                   *)
Free(a) == live[a] = NoCred /\ \A t \in Callers : inflight[t].call.addr # a

(* Faulty variant: the type of the credentials is not asserted. *)
NormalizeNoAssert(c, tmp) ==
  CASE c.form = "dict" ->
         IF CredentialsCtorOk(c.rec)
         THEN [ok |-> TRUE, obj |-> _dict_to_credentials(c.rec), addr |-> tmp, exc |-> "none"]
         ELSE [ok |-> FALSE, obj |-> NoCred, addr |-> 0, exc |-> "TypeError"]
    [] c.form = "live" ->
         [ok |-> TRUE, obj |-> live[c.addr], addr |-> c.addr, exc |-> "none"]
    [] OTHER ->
         [ok |-> TRUE, obj |-> NoCred, addr |-> 0, exc |-> "none"]

(* isinstance(credentials, dict) -> _dict_to_credentials; then the assert. *)
(* tmp is the address the new object gets.                                 *)
Normalize(c, tmp) ==
  CASE c.form = "dict" ->
         IF CredentialsCtorOk(c.rec)
         THEN [ok |-> TRUE, obj |-> _dict_to_credentials(c.rec), addr |-> tmp, exc |-> "none"]
         ELSE [ok |-> FALSE, obj |-> NoCred, addr |-> 0, exc |-> "TypeError"]
    [] c.form = "live" ->
         [ok |-> TRUE, obj |-> live[c.addr], addr |-> c.addr, exc |-> "none"]
    [] OTHER ->
         [ok |-> FALSE, obj |-> NoCred, addr |-> 0, exc |-> "AssertionError"]

(* ------------------------------ the memoizer -------------------------- *)
(* Printed form of an argument, as the memoizer puts it into the key. *)
(* Faulty variant: an absent string is printed like the empty string. *)
ReprStrAbsentEmpty(s) == IF s = None THEN "''" ELSE "'" \o s \o "'"

ReprStr(s) == IF s = None THEN "None" ELSE "'" \o s \o "'"

ReprInt(l) == IF l.some THEN ToString(l.n) ELSE "None"

(* Faulty variant: the inner function's name is not part of the key. *)
MakeKeyNoName(fname, addr, keyargs) == <<"f", addr>> \o keyargs

(* The key: inner function, identity of the credentials object, arguments. *)
MakeKey(fname, addr, keyargs) == <<fname, addr>> \o keyargs

(* Faulty variant: the entry is gone at its expiry time already. *)
FreshStrict(e, t) == t < e.expiresAt

(* Is the entry still served at time t?  The store serves it up to and     *)
(* including its expiry time.                                              *)
Fresh(e, t) == t <= e.expiresAt

Found(key) == key \in DOMAIN cache /\ Fresh(cache[key], now)

(* Faulty variant: the timeout is not handed to the store. *)
EntryNoTimeout(value, t, timeout) == [value |-> value, expiresAt |-> t + 10 * cache_timeout]

(* Faulty variant: query results are kept for a minute only. *)
EntryByOperation(value, t, timeout) ==
  [value |-> value, expiresAt |-> t + (IF value.fn = "read_table" THEN 60 ELSE timeout)]

Entry(value, t, timeout) == [value |-> value, expiresAt |-> t + timeout]

Store(c, key, e) == [k \in DOMAIN c \cup {key} |-> IF k = key THEN e ELSE c[k]]

(* Faulty variant: only the expired entries are evicted. *)
ClearedExpired(c) == [k \in {j \in DOMAIN c : now <= c[j].expiresAt} |-> c[k]]

Cleared(c) == [k \in {} |-> NoEntry]

(* What the remote provider answers: a function of the request, of the     *)
(* credentials it is made with and of the time it is made at.              *)
Remote(fn, cred, args, t) == [fn |-> fn, cred |-> cred, args |-> args, at |-> t]

(* ----------------------------- read_table ----------------------------- *)
(* Faulty variant: the test is for None, not for truth. *)
TruthyStrNotNone(s) == s # None

TruthyStr(s) == s # None /\ s # ""

TruthyInt(l) == l.some /\ l.n # 0

TableRef(project_id, dataset_id, table_id) ==
  project_id \o "." \o dataset_id \o "." \o table_id

(* Stands for the backquote character, which a string here cannot spell. *)
Backquote == "^"

(* Faulty variant: the LIMIT clause is appended to a custom query too. *)
BuildQueryLimitAll(project_id, dataset_id, table_id, limit, custom_query) ==
  (IF TruthyStr(custom_query)
   THEN custom_query
   ELSE "SELECT * FROM " \o Backquote \o TableRef(project_id, dataset_id, table_id) \o Backquote)
    \o (IF TruthyInt(limit) THEN " LIMIT " \o ToString(limit.n) ELSE "")

BuildQuery(project_id, dataset_id, table_id, limit, custom_query) ==
  IF TruthyStr(custom_query)
  THEN custom_query
  ELSE IF TruthyInt(limit)
       THEN "SELECT * FROM " \o Backquote \o TableRef(project_id, dataset_id, table_id) \o Backquote
              \o " LIMIT " \o ToString(limit.n)
       ELSE "SELECT * FROM " \o Backquote \o TableRef(project_id, dataset_id, table_id) \o Backquote

(* The provider's own error, raised by a failing remote call. *)
RawError == [type |-> "ProviderError", msg |-> "cause"]

(* Faulty variant: the message names no table. *)
ReadErrorNoRef(table_ref) ==
  [type |-> "Exception", msg |-> "Error reading table: " \o RawError.msg]

ReadError(table_ref) ==
  [type |-> "Exception", msg |-> "Error reading table " \o table_ref \o ": " \o RawError.msg]

SchemaError(table_ref) ==
  [type |-> "Exception",
   msg |-> "Error getting table schema for " \o table_ref \o ": " \o RawError.msg]

(* Faulty variant: on a failure the inner function returns an empty result. *)
InnerSwallows(ok, value, err) ==
  [kind |-> "return", value |-> IF ok THEN value ELSE NoResult, err |-> NoError]

(* What the inner function does with the remote call's outcome: it returns *)
(* the result, or raises (read_table and get_table_schema re-raise what    *)
(* they catch, the other three catch nothing).                             *)
Inner(ok, value, err) ==
  IF ok
  THEN [kind |-> "return", value |-> value, err |-> NoError]
  ELSE [kind |-> "raise", value |-> NoResult, err |-> err]

(* Faulty variant: a hit stores the entry again, with a new expiry. *)
WrittenTouch(c, key, hit, inner, t) ==
  IF hit
  THEN Store(c, key, Entry(c[key].value, t, cache_timeout))
  ELSE IF inner.kind = "return"
       THEN Store(c, key, Entry(inner.value, t, cache_timeout))
       ELSE c

(* The store after the memoized inner function was called at time t: on a  *)
(* hit and when the inner function raised it is as before; when the inner  *)
(* function returned, its value is stored under the key with the timeout.  *)
Written(c, key, hit, inner, t) ==
  IF hit \/ inner.kind # "return"
  THEN c
  ELSE Store(c, key, Entry(inner.value, t, cache_timeout))

(* --------------------- one call of a memoized operation ---------------- *)
(* fn: the handler method; c: the credentials argument; args, keyargs: the *)
(* other arguments and their printed forms; remote, sent: the remote       *)
(* capability the inner function calls and the query it sends; err: the    *)
(* error it raises when the remote call fails; ok: whether the remote call *)
(* succeeds.                                                               *)
Call(fn, c, args, keyargs, remote, sent, err, tmp, ok) ==
  LET n == Normalize(c, tmp)
      key == MakeKey(fn, n.addr, keyargs)
      base == [NoCall EXCEPT !.fn = fn, !.form = c.form, !.rec = c.rec, !.args = args,
                             !.at = now,
                             !.prev = CASE last.fn = "clear_cache" -> "cleared"
                                        [] n.ok /\ last.outcome = "failed" /\ last.key = key
                                             -> "failed"
                                        [] OTHER -> "other",
                             !.evicted = IF last.fn = "clear_cache"
                                         THEN {x \in last.evicted :
                                                 n.ok /\ x.key = key /\ now <= x.expiresAt}
                                         ELSE {}]
      called == [base EXCEPT !.cred = n.obj, !.addr = n.addr, !.key = key,
                             !.pre = IF key \in DOMAIN cache THEN cache[key] ELSE NoEntry]
      inner == Inner(ok, Remote(fn, n.obj, args, now), err)
      invoked == [called EXCEPT !.remote = remote, !.sent = sent,
                                !.outcome = IF ok THEN "ok" ELSE "failed"]
  IN /\ calls < MaxCalls
     /\ calls' = calls + 1
     /\ c.form = "dict" => (tmp \in Addr /\ Free(tmp))
     /\ c.form = "live" => live[c.addr] # NoCred
     /\ IF ~n.ok
        THEN /\ cache' = cache
             /\ last' = [base EXCEPT !.status = n.exc]
        ELSE /\ cache' = Written(cache, key, Found(key), inner, now)
             /\ last' = IF Found(key)
                        THEN [called EXCEPT !.status = "hit", !.result = cache[key].value]
                        ELSE IF inner.kind = "return"
                        THEN [invoked EXCEPT !.status = "miss", !.result = inner.value]
                        ELSE [invoked EXCEPT !.status = "error", !.err = inner.err]
     /\ UNCHANGED <<now, live, codec, inflight>>

get_projects(c, tmp, ok) ==
  Call("get_projects", c, <<>>, <<>>, "projects.list", "", RawError, tmp, ok)

get_datasets(c, project_id, tmp, ok) ==
  Call("get_datasets", c, <<project_id>>, <<ReprStr(project_id)>>,
       "datasets.list", "", RawError, tmp, ok)

get_tables(c, project_id, dataset_id, tmp, ok) ==
  Call("get_tables", c, <<project_id, dataset_id>>,
       <<ReprStr(project_id), ReprStr(dataset_id)>>,
       "tables.list", "", RawError, tmp, ok)

read_table(c, project_id, dataset_id, table_id, location, limit, custom_query, tmp, ok) ==
  Call("read_table", c,
       <<project_id, dataset_id, table_id, location, limit, custom_query>>,
       <<ReprStr(project_id), ReprStr(dataset_id), ReprStr(table_id), ReprStr(location),
         ReprInt(limit), ReprStr(custom_query)>>,
       "query", BuildQuery(project_id, dataset_id, table_id, limit, custom_query),
       ReadError(TableRef(project_id, dataset_id, table_id)), tmp, ok)

get_table_schema(c, project_id, dataset_id, table_id, location, tmp, ok) ==
  Call("get_table_schema", c, <<project_id, dataset_id, table_id, location>>,
       <<ReprStr(project_id), ReprStr(dataset_id), ReprStr(table_id), ReprStr(location)>>,
       "get_table", "", SchemaError(TableRef(project_id, dataset_id, table_id)),
       tmp, ok)

clear_cache ==
  /\ cache' = Cleared(cache)
  /\ last' = [NoCall EXCEPT !.fn = "clear_cache", !.at = now, !.status = "cleared",
                            !.evicted = {[key |-> k, expiresAt |-> cache[k].expiresAt] :
                                           k \in {j \in DOMAIN cache : Fresh(cache[j], now)}}]
  /\ UNCHANGED <<now, live, calls, codec, inflight>>

(* ------------------ a call in two steps, for concurrent callers -------- *)
(* Thread t enters the handler: the credentials are normalised, the        *)
(* memoizer looks the key up and, when it finds no served entry, the inner *)
(* function sends its request to the remote capability.  Nothing in the    *)
(* handler holds a lock over the lookup, the remote call and the store.    *)
Begin(t, fn, c, args, keyargs, remote, sent, err, tmp) ==
  LET n == Normalize(c, tmp)
      key == MakeKey(fn, n.addr, keyargs)
      base == [NoCall EXCEPT !.fn = fn, !.form = c.form, !.rec = c.rec, !.args = args,
                             !.at = now, !.prev = "other"]
      called == [base EXCEPT !.cred = n.obj, !.addr = n.addr, !.key = key,
                             !.pre = IF key \in DOMAIN cache THEN cache[key] ELSE NoEntry]
  IN /\ calls < MaxCalls
     /\ calls' = calls + 1
     /\ inflight[t] = NoFlight
     /\ c.form = "dict" => (tmp \in Addr /\ Free(tmp))
     /\ c.form = "live" => live[c.addr] # NoCred
     /\ IF ~n.ok
        THEN /\ last' = [base EXCEPT !.status = n.exc]
             /\ inflight' = inflight
        ELSE IF Found(key)
        THEN /\ last' = [called EXCEPT !.status = "hit", !.result = cache[key].value]
             /\ inflight' = inflight
        ELSE /\ last' = last
             /\ inflight' = [inflight EXCEPT ![t] =
                               [call |-> [called EXCEPT !.remote = remote, !.sent = sent],
                                err |-> err]]
     /\ UNCHANGED <<cache, now, live, codec>>

(* The remote capability answers thread t's request (ok) or fails: the     *)
(* inner function returns or raises, and the memoizer stores what it       *)
(* returned under the key computed when the call began.                    *)
End(t, ok) ==
  LET f == inflight[t]
      inner == Inner(ok, Remote(f.call.fn, f.call.cred, f.call.args, now), f.err)
      done == [f.call EXCEPT !.outcome = IF ok THEN "ok" ELSE "failed"]
  IN /\ f # NoFlight
     /\ inflight' = [inflight EXCEPT ![t] = NoFlight]
     /\ cache' = Written(cache, f.call.key, FALSE, inner, now)
     /\ last' = IF inner.kind = "return"
                THEN [done EXCEPT !.status = "miss", !.result = inner.value]
                ELSE [done EXCEPT !.status = "error", !.err = inner.err]
     /\ UNCHANGED <<now, live, calls, codec>>

(* ----------------------------- environment ---------------------------- *)
Tick ==
  /\ now + TickStep <= MaxTime
  /\ now' = now + TickStep
  /\ UNCHANGED <<cache, live, last, calls, codec, inflight>>

(* The caller builds a Credentials object of its own and keeps it. *)
CallerNew(a, r) ==
  /\ Free(a)
  /\ \E b \in Addr \ {a} : Free(b)
  /\ live' = [live EXCEPT ![a] = Credentials(r)]
  /\ UNCHANGED <<cache, now, last, calls, codec, inflight>>

(* The caller's object refreshes its access token in place. *)
CallerRefresh(a) ==
  /\ live[a] # NoCred
  /\ live[a]["token"] = "tokA"
  /\ live' = [live EXCEPT ![a]["token"] = "tokA2"]
  /\ UNCHANGED <<cache, now, last, calls, codec, inflight>>

(* The caller drops its object; the address is free again. *)
CallerDrop(a) ==
  /\ live[a] # NoCred
  /\ live' = [live EXCEPT ![a] = NoCred]
  /\ UNCHANGED <<cache, now, last, calls, codec, inflight>>

(* --------------------------- specifications --------------------------- *)
Init ==
  /\ cache = [k \in {} |-> NoEntry]
  /\ now = 0
  /\ live = [a \in Addr |-> NoCred]
  /\ last = NoCall
  /\ calls = 0
  /\ codec = NoCodec
  /\ inflight = [t \in Callers |-> NoFlight]

(* The addresses a new object can get: those of no object still held. *)
TmpChoices(c) == IF c.form = "dict" THEN {a \in Addr : Free(a)} ELSE {0}

(* The ghost fields of last: pre is the entry the store held under the     *)
(* call's key before the call; prev tells whether the operation before     *)
(* was clear_cache ("cleared") or a failed call with the same key          *)
(* ("failed"); evicted holds what that clear_cache evicted under the key   *)
(* and would still have served.                                            *)

(* Spec: sequences of calls, with time passing, the cache being cleared    *)
(* and the caller's own objects coming, refreshing and going.              *)
CredArgs == {DictCred(RecA), DictCred(RecA2), OtherCred} \cup {LiveCred(a) : a \in Addr}

GetProjects ==
  \E c \in CredArgs :
  \E tmp \in TmpChoices(c), ok \in BOOLEAN :
    get_projects(c, tmp, ok)

GetDatasets ==
  \E c \in CredArgs, p \in Projects :
  \E tmp \in TmpChoices(c), ok \in BOOLEAN :
    get_datasets(c, p, tmp, ok)

GetTables ==
  \E c \in CredArgs :
  \E tmp \in TmpChoices(c), ok \in BOOLEAN :
    get_tables(c, "p1", "d1", tmp, ok)

ReadTable ==
  \E c \in CredArgs, a \in MainReadArgs :
  \E tmp \in TmpChoices(c), ok \in BOOLEAN :
    read_table(c, "p1", "d1", "t1", "US", a[1], a[2], tmp, ok)

GetTableSchema ==
  \E c \in CredArgs :
  \E tmp \in TmpChoices(c), ok \in BOOLEAN :
    get_table_schema(c, "p1", "d1", "t1", "US", tmp, ok)

ClearCache == clear_cache

Clock == calls < MaxCalls /\ Tick

Caller ==
  /\ calls < MaxCalls
  /\ \/ \E a \in Addr : CallerNew(a, RecA)
     \/ \E a \in Addr : CallerRefresh(a)
     \/ \E a \in Addr : CallerDrop(a)

Next ==
  \/ GetProjects
  \/ GetDatasets
  \/ GetTables
  \/ ReadTable
  \/ GetTableSchema
  \/ ClearCache
  \/ Clock
  \/ Caller

Spec == Init /\ [][Next]_vars

(* SpecOne: one call of any operation with any input, made on the empty   *)
(* cache or after the caller built an object of its own.                   *)
AllCredArgs == {DictCred(r) : r \in CredDicts} \cup {LiveCred(a) : a \in Addr} \cup {OtherCred}

OneGetProjects ==
  \E c \in AllCredArgs :
  \E tmp \in TmpChoices(c), ok \in BOOLEAN :
    calls = 0 /\ get_projects(c, tmp, ok)

OneGetDatasets ==
  \E c \in AllCredArgs, p \in Projects :
  \E tmp \in TmpChoices(c), ok \in BOOLEAN :
    calls = 0 /\ get_datasets(c, p, tmp, ok)

OneGetTables ==
  \E c \in AllCredArgs, p \in Projects, d \in Datasets :
  \E tmp \in TmpChoices(c), ok \in BOOLEAN :
    calls = 0 /\ get_tables(c, p, d, tmp, ok)

OneReadTable ==
  \E c \in AllCredArgs, p \in Projects, d \in Datasets, t \in Tables, loc \in Locations,
     limit \in Limits, q \in Queries :
  \E tmp \in TmpChoices(c), ok \in BOOLEAN :
    calls = 0 /\ read_table(c, p, d, t, loc, limit, q, tmp, ok)

OneGetTableSchema ==
  \E c \in AllCredArgs, p \in Projects, d \in Datasets, t \in Tables, loc \in Locations :
  \E tmp \in TmpChoices(c), ok \in BOOLEAN :
    calls = 0 /\ get_table_schema(c, p, d, t, loc, tmp, ok)

OneCaller == calls = 0 /\ \E a \in Addr : CallerNew(a, RecA)

NextOne ==
  \/ OneGetProjects
  \/ OneGetDatasets
  \/ OneGetTables
  \/ OneReadTable
  \/ OneGetTableSchema
  \/ OneCaller

SpecOne == Init /\ [][NextOne]_vars

(* SpecCodec: the credential codec applied to a dict and back. *)
Tokens == {"tokA", "tokA2"}
RefreshTokens == {None, "rfA"}
TokenUris == {None, "uriA"}
ClientIds == {None, "cidA"}
ClientSecrets == {None, "secA"}
ScopeSets == {None, "scopeA", "scopeB"}

Record(t, r, u, i, s, sc) ==
  [k \in CredKeys |->
     CASE k = "token" -> t
       [] k = "refresh_token" -> r
       [] k = "token_uri" -> u
       [] k = "client_id" -> i
       [] k = "client_secret" -> s
       [] OTHER -> sc]

FullRecords ==
  {Record(t, r, u, i, s, sc) : t \in Tokens, r \in RefreshTokens, u \in TokenUris,
                               i \in ClientIds, s \in ClientSecrets, sc \in ScopeSets}

(* Dicts that leave out optional keys as well. *)
CodecDicts ==
  {[k \in CredKeys \ D |-> r[k]] : r \in FullRecords, D \in SUBSET {"token_uri", "scopes"}}

Convert(r) ==
  /\ CredentialsCtorOk(r)
  /\ codec' = [rec |-> r, obj |-> _dict_to_credentials(r),
               back |-> _credentials_to_dict(_dict_to_credentials(r))]
  /\ UNCHANGED <<cache, now, live, last, calls, inflight>>

NextCodec == \E r \in CodecDicts : Convert(r)

SpecCodec == Init /\ [][NextCodec]_vars

(* SpecConc: several threads call the handler at the same time; a call's   *)
(* remote request stays unanswered while other threads begin theirs.       *)
ConcCredArgs == {DictCred(RecA)} \cup {LiveCred(a) : a \in Addr}

ConcGetDatasets ==
  \E t \in Callers, c \in ConcCredArgs, p \in Projects :
  \E tmp \in TmpChoices(c) :
    Begin(t, "get_datasets", c, <<p>>, <<ReprStr(p)>>, "datasets.list", "", RawError, tmp)

ConcGetTableSchema ==
  \E t \in Callers, c \in ConcCredArgs, tb \in Tables :
  \E tmp \in TmpChoices(c) :
    Begin(t, "get_table_schema", c, <<"p1", "d1", tb, "US">>,
          <<ReprStr("p1"), ReprStr("d1"), ReprStr(tb), ReprStr("US")>>,
          "get_table", "", SchemaError(TableRef("p1", "d1", tb)), tmp)

ConcEnd == \E t \in Callers, ok \in BOOLEAN : End(t, ok)

ConcCaller == calls < MaxCalls /\ \E a \in Addr : CallerNew(a, RecA)

NextConc ==
  \/ ConcGetDatasets
  \/ ConcGetTableSchema
  \/ ConcEnd
  \/ ConcCaller
  \/ Clock

SpecConc == Init /\ [][NextConc]_vars

(* ------------------------------ the claims ---------------------------- *)
(* The call reached the memoized inner function. *)
Reached(l) == l.status \in {"hit", "miss", "error"}

RemoteInvoked(l) == l.remote # "none"

(* Entry e was produced for the request of call l: the same operation, the *)
(* same arguments and credentials with the same fields.                    *)
SameRequest(e, l) ==
  /\ e.value.fn = l.fn
  /\ e.value.args = l.args
  /\ e.value.cred = l.cred

(* C1 (as claimed): a call whose operation, arguments and credentials are   *)
(* those of an earlier successful call made less than the TTL ago, with no *)
(* clear in between, does not invoke the remote capability and returns the *)
(* earlier call's result.                                                  *)
C1_HitElision ==
  [][calls' = calls + 1 =>
       \A k \in DOMAIN cache :
         (SameRequest(cache[k], last') /\ now - cache[k].value.at < cache_timeout)
           => (~RemoteInvoked(last') /\ last'.result = cache[k].value)]_vars

(* C2 (as claimed): a call made with a credential dict, after the same call *)
(* made less than the TTL ago with the equivalent live Credentials object  *)
(* stored its result, has that call's cache key and is a hit.              *)
C2_KeyEquality ==
  [][(/\ calls' = calls + 1
      /\ last'.form = "dict" /\ Reached(last')
      /\ last.form = "live" /\ last.status = "miss"
      /\ last.fn = last'.fn /\ last.args = last'.args /\ last.cred = last'.cred
      /\ now - last.at < cache_timeout)
       => (last'.key = last.key /\ last'.status = "hit" /\ ~RemoteInvoked(last'))]_vars

(* C3 (as claimed): a hit only ever returns a value that was produced for   *)
(* the same operation, the same arguments and credentials with the same    *)
(* fields, access token included.                                          *)
C3_KeySeparation ==
  last.status = "hit" =>
    /\ last.result.fn = last.fn
    /\ last.result.args = last.args
    /\ last.result.cred = last.cred

(* C4: a call made more than the TTL after the entry under its key was      *)
(* stored invokes the remote capability, does not return the stale value,  *)
(* and, when the remote call succeeds, leaves the entry overwritten with   *)
(* the new value and the expiry now + TTL.                                 *)
C4_TTLExpiry ==
  (Reached(last) /\ last.pre # NoEntry /\ last.at - last.pre.value.at > cache_timeout) =>
    /\ RemoteInvoked(last)
    /\ last.result # last.pre.value
    /\ last.status = "miss" =>
         /\ last.result.at = last.at
         /\ last.key \in DOMAIN cache
         /\ cache[last.key] = [value |-> last.result, expiresAt |-> last.at + cache_timeout]

C4_Witness ==
  /\ last.status = "miss"
  /\ last.pre # NoEntry
  /\ last.at - last.pre.value.at > cache_timeout

(* C5: a failed remote call reaches the caller as an error, leaves no       *)
(* served entry under the call's key, and the next call with that key      *)
(* invokes the remote capability again; no cache entry ever holds anything *)
(* but the result of a successful remote call.                             *)
C5_NoNegativeCaching ==
  /\ last.outcome = "failed" =>
       /\ last.status = "error"
       /\ last.err # NoError
       /\ last.result = NoResult
       /\ last.key \in DOMAIN cache =>
            (cache[last.key] = last.pre /\ last.at >= last.pre.expiresAt)
  /\ last.prev = "failed" => RemoteInvoked(last)
  /\ \A k \in DOMAIN cache : cache[k].value # NoResult /\ cache[k].value.fn = k[1]

C5_Witness ==
  /\ last.prev = "failed"
  /\ last.status = "miss"
  /\ last.pre = NoEntry

(* C6: clear_cache leaves the store empty, and the first call after it      *)
(* finds no entry under its key and invokes the remote capability, also    *)
(* when the clear evicted an unexpired entry under that key.               *)
C6_ClearCache ==
  /\ last.fn = "clear_cache" => DOMAIN cache = {}
  /\ (Reached(last) /\ last.prev = "cleared") =>
       (last.pre = NoEntry /\ RemoteInvoked(last))

C6_Witness ==
  /\ last.prev = "cleared"
  /\ last.evicted # {}
  /\ last.status = "miss"

IsReadTable(l) == l.fn = "read_table" /\ RemoteInvoked(l)

DefaultQuery(l) ==
  "SELECT * FROM " \o Backquote \o l.args[1] \o "." \o l.args[2] \o "." \o l.args[3] \o Backquote

(* C8 (as claimed): without a custom query, read_table sends SELECT * over  *)
(* project.dataset.table, with LIMIT n exactly when limit is present and   *)
(* positive.                                                               *)
C8_DefaultQuery ==
  (IsReadTable(last) /\ last.args[6] = None) =>
    last.sent = IF last.args[5].some /\ last.args[5].n > 0
                THEN DefaultQuery(last) \o " LIMIT " \o ToString(last.args[5].n)
                ELSE DefaultQuery(last)

(* C9 (as claimed): a custom query that is supplied is sent unchanged, for  *)
(* every limit.                                                            *)
C9_CustomQuerySupplied ==
  (IsReadTable(last) /\ last.args[6] # None) => last.sent = last.args[6]

(* C9 (amended): a custom query that is supplied and not empty is sent      *)
(* unchanged, for every limit.                                             *)
C9_CustomQueryNonEmpty ==
  (IsReadTable(last) /\ last.args[6] # None /\ last.args[6] # "") =>
    last.sent = last.args[6]

C9_Witness ==
  /\ IsReadTable(last)
  /\ last.args[6] = "SELECT 1"
  /\ last.args[5] = Limit(5)
  /\ last.sent = "SELECT 1"

(* C10 (as claimed): a call with a credential dict that has a refresh token *)
(* and no token endpoint fails before the memoized function: no remote     *)
(* call is made and nothing is cached.                                     *)
C10_InvalidCredentials ==
  (/\ last.form = "dict"
   /\ "refresh_token" \in DOMAIN last.rec
   /\ last.rec["refresh_token"] # None
   /\ "token_uri" \notin DOMAIN last.rec) =>
    (~Reached(last) /\ ~RemoteInvoked(last) /\ DOMAIN cache = {})

(* C11: a failed remote call of read_table or get_table_schema reaches the  *)
(* caller as an exception of the handler's own whose message carries       *)
(* project.dataset.table and the message of the provider's error; the call *)
(* returns no result.                                                      *)
C11_TableErrorWrapping ==
  (last.fn \in {"read_table", "get_table_schema"} /\ last.outcome = "failed") =>
    /\ last.status = "error"
    /\ last.result = NoResult
    /\ last.err.type = "Exception"
    /\ last.err # RawError
    /\ last.err.msg =
         (IF last.fn = "read_table"
          THEN "Error reading table "
          ELSE "Error getting table schema for ")
           \o last.args[1] \o "." \o last.args[2] \o "." \o last.args[3]
           \o ": " \o RawError.msg

C11_Witness ==
  /\ last.fn = "read_table"
  /\ last.outcome = "failed"
  /\ last.args[6] = "SELECT 1"
  /\ last.err.msg = "Error reading table p2.d1.t2: cause"

(* C12 (as claimed): in each of the five operations a failed remote call    *)
(* reaches the caller as a wrapped error that names the operation's        *)
(* resources, never as the provider's own error.                           *)
C12_EveryOperationWraps ==
  last.outcome = "failed" =>
    /\ last.status = "error"
    /\ last.err # RawError
    /\ last.err.type = "Exception"

(* C13: every entry of the store, whichever operation and arguments made    *)
(* it, expires cache_timeout (300) after the time it was stored at.        *)
C13_UniformTTL ==
  /\ cache_timeout = 300
  /\ \A k \in DOMAIN cache : cache[k].expiresAt = cache[k].value.at + cache_timeout
  /\ last.status = "miss" => cache[last.key].expiresAt = last.at + cache_timeout

C13_Witness ==
  \E k1, k2 \in DOMAIN cache :
    /\ k1[1] = "read_table" /\ cache[k1].expiresAt = 300
    /\ k2[1] = "get_datasets" /\ cache[k2].expiresAt = 450

C15_AbsentDistinguished ==
  /\ (last.fn = "read_table" /\ last.status = "hit") =>
       (last.result.args[5] = last.args[5] /\ last.result.args[6] = last.args[6])
  /\ \A k \in DOMAIN cache :
       k[1] = "read_table" =>
         /\ (k[7] = "None") = (cache[k].value.args[5] = NoLimit)
         /\ (k[8] = "None") = (cache[k].value.args[6] = None)

C15_Witness ==
  /\ last.fn = "read_table"
  /\ last.args[6] = ""
  /\ last.status = "miss"
  /\ \E k \in DOMAIN cache :
       /\ k # last.key
       /\ k[1] = "read_table" /\ k[2] = last.addr
       /\ k[7] = last.key[7] /\ k[8] = "None"
       /\ cache[k].value.cred = last.cred
       /\ now < cache[k].expiresAt

(* C16: a call made at exactly the expiry time of the entry under its key   *)
(* is a hit (the cached value, no remote call); a call that finds an entry  *)
(* and is not a hit was made strictly after its expiry.                     *)
C16_BoundaryIsHit ==
  (Reached(last) /\ last.pre # NoEntry) =>
    /\ last.at = last.pre.expiresAt =>
         (last.status = "hit" /\ ~RemoteInvoked(last) /\ last.result = last.pre.value)
    /\ last.status # "hit" => last.at > last.pre.expiresAt

C16_Witness ==
  /\ last.pre # NoEntry
  /\ last.at = last.pre.expiresAt
  /\ last.at = last.pre.value.at + cache_timeout
  /\ last.status = "hit"
  /\ ~RemoteInvoked(last)

(* C17: the value a hit returns was produced by the operation that is       *)
(* called, and every entry is stored under a key that names the operation   *)
(* that produced it; read_table without limit and custom query and          *)
(* get_table_schema for the same table do not serve each other's entries.   *)
C17_OperationIsolation ==
  /\ last.status = "hit" => last.result.fn = last.fn
  /\ Reached(last) => last.key[1] = last.fn
  /\ \A k \in DOMAIN cache : k[1] = cache[k].value.fn

C17_Witness ==
  /\ last.fn = "read_table"
  /\ last.args[5] = NoLimit /\ last.args[6] = None
  /\ last.status = "miss"
  /\ \E k \in DOMAIN cache :
       /\ k[1] = "get_table_schema" /\ k[2] = last.addr
       /\ cache[k].value.cred = last.cred
       /\ cache[k].value.args = SubSeq(last.args, 1, 4)
       /\ now < cache[k].expiresAt

(* C18: a call of one of the five operations leaves every entry under      *)
(* another key as it was (value and expiry) and adds no entry under        *)
(* another key; a hit, a failed call and a call rejected before the        *)
(* memoized function leave the whole store as it was.                      *)
C18_Frame ==
  [][calls' = calls + 1 =>
       /\ \A k \in DOMAIN cache :
            k # last'.key => (k \in DOMAIN cache' /\ cache'[k] = cache[k])
       /\ DOMAIN cache' \subseteq DOMAIN cache \cup {last'.key}
       /\ last'.status # "miss" => cache' = cache]_vars

C18_Witness ==
  /\ last.status = "miss"
  /\ cache[last.key].value.at = last.at
  /\ \E k \in DOMAIN cache :
       /\ k # last.key
       /\ cache[k].value.at < last.at
       /\ cache[k].expiresAt = cache[k].value.at + cache_timeout

(* C19: a call whose credentials argument is neither a dict nor a          *)
(* Credentials object fails the handler's assertion: no key is computed,   *)
(* no entry is looked up, the remote capability is not invoked and the     *)
(* store is as before.                                                     *)
C19_TypeGuard ==
  [][(calls' = calls + 1 /\ last'.form = "other") =>
       /\ last'.status = "AssertionError"
       /\ ~Reached(last')
       /\ ~RemoteInvoked(last')
       /\ last'.key = <<>> /\ last'.pre = NoEntry
       /\ last'.result = NoResult
       /\ cache' = cache]_vars

C19_Witness ==
  /\ last.form = "other"
  /\ last.status = "AssertionError"
  /\ last.fn = "get_table_schema"
  /\ \E k \in DOMAIN cache : k[1] = "get_table_schema" /\ now < cache[k].expiresAt

(* C20: read_table called with the empty string as custom query does not   *)
(* send the empty string: it sends SELECT * over project.dataset.table,    *)
(* with LIMIT n when limit is present and not zero, which is the query it  *)
(* sends when the custom query is absent.                                  *)
C20_EmptyCustomQuery ==
  (IsReadTable(last) /\ last.args[6] = "") =>
    /\ last.sent # ""
    /\ last.sent = IF last.args[5].some /\ last.args[5].n # 0
                   THEN DefaultQuery(last) \o " LIMIT " \o ToString(last.args[5].n)
                   ELSE DefaultQuery(last)
    /\ last.sent = BuildQuery(last.args[1], last.args[2], last.args[3], last.args[5], None)

C20_Witness ==
  /\ IsReadTable(last)
  /\ last.args[6] = ""
  /\ last.args[5] = Limit(5)
  /\ last.sent = "SELECT * FROM ^p1.d2.t1^ LIMIT 5"

=============================================================================
